---- MODULE Spec2Model ----
(***************************************************************************)
(* The tutorial notebooks of DeepLearningEAIA as a state machine.          *)
(*                                                                         *)
(* Three notebooks share one pipeline (load data, build and compile a      *)
(* model, fit, evaluate, predict, confusion matrix):                       *)
(*   "tensorboard"  src/unnamed/part_000  slice loader, TensorBoard logs   *)
(*   "mlp"          src/unnamed/part_001  random-mask loader, evaluation   *)
(*   "cnn"          src/unnamed/part_002  random-mask loader, wrap-up cell *)
(* The kernel's state is the notebook's global names.  Cells run top to    *)
(* bottom; the training cell (and the counter cell) may be run again, as   *)
(* part_000 says and its execution counts show.  A cell that raises halts  *)
(* the pass.  fit is a sequence of steps (begin, one step per epoch,       *)
(* return), and it can raise after any number of batches of an epoch.      *)
(*                                                                         *)
(* Further specifications: the pass with the numbers written in part_000   *)
(* (SpecScenario), the loading cell and the model cell in either order     *)
(* (SpecAnyOrder), two kernels running part_000 on one ./logs directory    *)
(* (SpecTwoKernels), part_000's training cell run again and again with no  *)
(* fit raising (SpecSequential), training in which a gradient step may     *)
(* overflow (SpecDivergence), and the notebooks with one more test row     *)
(* (SpecHeatmap).                                                          *)
(*                                                                         *)
(* Abstractions: an image is one pixel, its shape kept apart from it; the  *)
(* network's parameters are one number `weights`, and its output for a row *)
(* is a fixed function of that number and the row's feature; the loss is   *)
(* the number of misclassified rows.  A real number is a pair [num, den],  *)
(* a value that is not finite has den = 0, and nan parameters are -1.      *)
(***************************************************************************)
EXTENDS Integers, Sequences, FiniteSets, TLC

VARIABLES
    notebook,            \* which notebook the kernel runs
    cfg,                 \* batch_size, num_classes, epochs and the corpus sizes
    TRAIN_EXAMPLES,      \* requested training sample count (0: not set yet)
    TEST_EXAMPLES,       \* requested test sample count (0: not set yet)
    x_train, y_train,    \* the notebook's arrays, as sequences of rows
    x_test, y_test,
    model,               \* [input_shape, layers, units, metrics, weights]
    EXPERIMENT_COUNTER,  \* part_000's run counter (0: name not defined)
    tensorboard,         \* log_dir number of the current TensorBoard callback (0: none)
    logs,                \* the ./logs tree: the events written, in order
    fitState,            \* the running fit call: epoch, batch, samples seen, its History
    history,             \* the notebook's `history` name
    score,               \* the notebook's `score` name
    prediction,          \* the notebook's `prediction` name
    matrix,              \* the notebook's `matrix` name
    invocations,         \* training invocations started so far
    steps,               \* batch steps of training executed so far
    pc,                  \* position of the pass
    other                \* a second kernel running part_000 on the same ./logs

vars == << pc, fitState, EXPERIMENT_COUNTER, tensorboard, invocations, steps, logs, other,
           notebook, cfg, TRAIN_EXAMPLES, TEST_EXAMPLES, x_train, y_train,
           x_test, y_test, model, history, score, prediction, matrix >>

(***************************************************************************)
(* Bounds of the small model, and the numbers of the notebooks.            *)
(***************************************************************************)
TrainCorpus == 3      \* rows of the training corpus (60000 in the notebooks)
TestCorpus == 2       \* rows of the test corpus (10000 in the notebooks)
NumClasses == 3       \* num_classes (10 in the notebooks)
Epochs == 2           \* epochs (10 in the notebooks)
BatchSize == 2        \* batch_size (128 in the notebooks)
MaxRuns == 2          \* training invocations per pass

MnistTrain == 60000
MnistTest == 10000
batch_size == 128
num_classes == 10
epochs == 10
ScenarioTrain == 6000
ScenarioTest == 1000
PixelMax == 255
img_rows == 28
img_cols == 28

None == "None"

Notebooks == {"tensorboard", "mlp", "cnn"}

SmallCfg == [batch_size |-> BatchSize, num_classes |-> NumClasses, epochs |-> Epochs,
             train |-> TrainCorpus, test |-> TestCorpus, runs |-> MaxRuns,
             any_order |-> FALSE]

\* the scenario is one run of the training cell
NotebookCfg == [batch_size |-> batch_size, num_classes |-> num_classes, epochs |-> epochs,
                train |-> MnistTrain, test |-> MnistTest, runs |-> 1,
                any_order |-> FALSE]

\* the loading cell and the model cell run in either order
AnyOrderCfg == [SmallCfg EXCEPT !.any_order = TRUE]

(***************************************************************************)
(* The corpus: mnist.load_data().  Example i of a split has one pixel and  *)
(* one label; both are fixed functions of i; the training rows have every  *)
(* label, the test rows from the third on repeat a label (the classes of   *)
(* the corpus are of unequal size), and the darkest and the brightest      *)
(* pixel (0 and 255) occur among the first rows.                           *)
(***************************************************************************)
Example(split, i) == [split |-> split, i |-> i]

Label(e) == IF e.split = "train" THEN (e.i - 1) % cfg.num_classes
                                 ELSE ((e.i + 2) \div 2) % cfg.num_classes

Pixel(e) == IF e.split = "train" THEN (e.i * 85) % (PixelMax + 1)
                                 ELSE ((e.i - 1) * PixelMax) % (PixelMax + 1)

CorpusSize(split) == IF split = "train" THEN cfg.train ELSE cfg.test

\* A row of an image array is << split, i, num, den >>: the example it was read
\* from and its pixel num/den.  A row of a label array is << split, i, val >>:
\* the example and its label, an integer or, once encoded, a one-hot vector.
Src(row) == Example(row[1], row[2])

Px(row) == [num |-> row[3], den |-> row[4]]

Val(row) == row[3]

\* the image array of a split, reshaped: one row per example, uint8 pixels
load_data_x(split) ==
    [i \in 1..CorpusSize(split) |-> << split, i, Pixel(Example(split, i)), 1 >>]

\* the label array of a split: integer labels
load_data_y(split) ==
    [i \in 1..CorpusSize(split) |-> << split, i, Label(Example(split, i)) >>]

(***************************************************************************)
(* numpy and keras.utils helpers.                                          *)
(***************************************************************************)
Min(a, b) == IF a < b THEN a ELSE b

\* a slice that stops one row early
Slice_exclusive(a, n) == SubSeq(a, 1, Min(n, Len(a)) - 1)

\* a[:n] for n >= 0: the first min(n, len(a)) rows, never an error
Slice(a, n) == SubSeq(a, 1, Min(n, Len(a)))

\* a[mask]: the rows at the mask's indices, in the mask's order
Take(a, mask) == [k \in 1..Len(mask) |-> a[mask[k]]]

Range(s) == { s[k] : k \in 1..Len(s) }

\* numpy.random.choice(population, n, replace=False): every ordered sample of n
\* distinct indices; no sample at all (ValueError) when n > population
RECURSIVE choice(_, _)
choice(population, n) ==
    IF n = 0 THEN { << >> }
    ELSE IF n > population THEN {}
    ELSE UNION { { Append(s, i) : i \in (1..population) \ Range(s) } :
                 s \in choice(population, n - 1) }

\* a division by the number of pixel levels
normalize_by_levels(x) ==
    [k \in 1..Len(x) |-> << x[k][1], x[k][2], x[k][3], x[k][4] * (PixelMax + 1) >>]

\* x.astype('float32'); x /= 255
normalize(x) == [k \in 1..Len(x) |-> << x[k][1], x[k][2], x[k][3], x[k][4] * PixelMax >>]

\* an encoding that counts the classes from 1
one_hot_from_one(y, K) == [j \in 1..K |-> IF j = y THEN 1 ELSE 0]

\* one row of keras.utils.to_categorical: zeros(num_classes) with a 1 at index y
one_hot(y, K) == [j \in 1..K |-> IF j = y + 1 THEN 1 ELSE 0]

to_categorical(y, K) == [k \in 1..Len(y) |-> << y[k][1], y[k][2], one_hot(Val(y[k]), K) >>]

\* numpy.argmax of one row: the (0-based) index of the first largest entry
argmax(v) == CHOOSE j \in 0..(Len(v) - 1) :
                /\ \A k \in 0..(Len(v) - 1) : v[k + 1] <= v[j + 1]
                /\ \A k \in 0..(j - 1) : v[k + 1] < v[j + 1]

(***************************************************************************)
(* The data loading cells.  Each operator gives the arrays the cell leaves *)
(* in the kernel, and whether it raised.                                   *)
(***************************************************************************)
\* part_000: prefix slices; the test features are cut from the training rows
LoadSlice(trainN, testN) ==
    LET xtr == Slice(load_data_x("train"), trainN)
        xte == Slice(xtr, testN)
    IN  [ok      |-> TRUE,
         x_train |-> normalize(xtr),
         x_test  |-> normalize(xte),
         y_train |-> to_categorical(Slice(load_data_y("train"), trainN), cfg.num_classes),
         y_test  |-> to_categorical(Slice(load_data_y("test"), testN), cfg.num_classes)]

\* part_001, part_002: random masks.  A mask is [ok, idx]: ok is FALSE when
\* choice raised, idx are the chosen indices.
LoadMask(train_mask, test_mask) ==
    IF ~train_mask.ok THEN
        [ok |-> FALSE,
         x_train |-> load_data_x("train"), x_test |-> load_data_x("test"),
         y_train |-> load_data_y("train"), y_test |-> load_data_y("test")]
    ELSE IF ~test_mask.ok THEN
        [ok |-> FALSE,
         x_train |-> Take(load_data_x("train"), train_mask.idx),
         x_test  |-> load_data_x("test"),
         y_train |-> Take(load_data_y("train"), train_mask.idx),
         y_test  |-> load_data_y("test")]
    ELSE
        [ok |-> TRUE,
         x_train |-> normalize(Take(load_data_x("train"), train_mask.idx)),
         x_test  |-> normalize(Take(load_data_x("test"), test_mask.idx)),
         y_train |-> to_categorical(Take(load_data_y("train"), train_mask.idx),
                                    cfg.num_classes),
         y_test  |-> to_categorical(Take(load_data_y("test"), test_mask.idx),
                                    cfg.num_classes)]

\* the one mask a generator seeded with a fixed value returns
Masks_seeded(nb, population, n) ==
    IF nb = "tensorboard" \/ n > population THEN { [ok |-> FALSE, idx |-> << >>] }
    ELSE { [ok |-> TRUE, idx |-> [k \in 1..n |-> k]] }

\* the masks numpy.random.choice(population, n, replace=False) can return
\* (part_000 draws no mask)
Masks(nb, population, n) ==
    IF nb = "tensorboard" \/ n > population THEN { [ok |-> FALSE, idx |-> << >>] }
    ELSE { [ok |-> TRUE, idx |-> s] : s \in choice(population, n) }

(***************************************************************************)
(* Layers and their shapes.  A shape is the tuple of an example's          *)
(* dimensions (the batch axis left out).  Only the first layer of a stack  *)
(* declares its input shape; Sequential.add calls every other layer on the *)
(* output of the layer before it.                                          *)
(***************************************************************************)
Dense(units) == [kind |-> "Dense", n |-> units, k |-> 0]

Conv2D(filters, kernel_size) == [kind |-> "Conv2D", n |-> filters, k |-> kernel_size]

MaxPooling2D(pool_size) == [kind |-> "MaxPooling2D", n |-> 0, k |-> pool_size]

Dropout == [kind |-> "Dropout", n |-> 0, k |-> 0]

Flatten == [kind |-> "Flatten", n |-> 0, k |-> 0]

\* the shape of no tensor: the layer rejected its input
NoShape == << >>

RECURSIVE Product(_)
Product(shape) == IF shape = << >> THEN 1 ELSE Head(shape) * Product(Tail(shape))

\* the feature shape of one example after the loading cell's reshape
FeatureShape(nb) == IF nb = "cnn" THEN << img_rows, img_cols, 1 >>
                                  ELSE << img_rows * img_cols >>

\* Layer.compute_output_shape, after the layer's check of its input's rank:
\* Dense replaces the last axis by its units; Conv2D (padding 'valid', stride 1)
\* and MaxPooling2D need rows, columns and channels; Flatten needs two axes or
\* more; Dropout keeps the shape
compute_output_shape(layer, in) ==
    CASE layer.kind = "Dense" ->
            IF Len(in) >= 1 THEN [in EXCEPT ![Len(in)] = layer.n] ELSE NoShape
      [] layer.kind = "Conv2D" ->
            IF Len(in) = 3 /\ in[1] >= layer.k /\ in[2] >= layer.k
            THEN << in[1] - layer.k + 1, in[2] - layer.k + 1, layer.n >> ELSE NoShape
      [] layer.kind = "MaxPooling2D" ->
            IF Len(in) = 3 /\ in[1] >= layer.k /\ in[2] >= layer.k
            THEN << in[1] \div layer.k, in[2] \div layer.k, in[3] >> ELSE NoShape
      [] layer.kind = "Flatten" -> IF Len(in) >= 2 THEN << Product(in) >> ELSE NoShape
      [] OTHER -> in

\* Sequential.add, layer after layer: each layer with the shape it was called on
\* and the shape it gives; the list ends at a layer that rejected its input
RECURSIVE OutputShapes(_, _)
OutputShapes(layers, in) ==
    IF layers = << >> THEN << >>
    ELSE LET out == compute_output_shape(Head(layers), in)
         IN  << [layer |-> Head(layers), in |-> in, out |-> out] >>
             \o (IF out = NoShape THEN << >> ELSE OutputShapes(Tail(layers), out))

\* the stacks the notebooks write
MlpStack ==
    [input_shape |-> << 784 >>,
     layers |-> << Dense(512), Dense(cfg.num_classes) >>]

CnnStack ==
    [input_shape |-> << img_rows, img_cols, 1 >>,
     layers |-> << Conv2D(16, 3), Conv2D(32, 3), MaxPooling2D(2), Dropout, Flatten,
                   Dense(128), Dropout, Dense(cfg.num_classes) >>]

ExampleCnnStack ==
    [input_shape |-> << 100, 100, 3 >>,
     layers |-> << Conv2D(32, 3), Conv2D(32, 3), MaxPooling2D(2), Dropout, Flatten,
                   Dense(256), Dropout, Dense(cfg.num_classes) >>]

AutoencoderStack ==
    [input_shape |-> << 784 >>,
     layers |-> << Dense(200), Dropout, Dense(784) >>]

Stacks == { MlpStack, CnnStack, ExampleCnnStack, AutoencoderStack }

\* the stack of the notebook's own pipeline
StackOf(nb) == IF nb = "cnn" THEN CnnStack ELSE MlpStack

(***************************************************************************)
(* The model: Sequential(), add(...), compile(...).  `units` is the width  *)
(* of the last layer, `metrics` the names compile was given (as Keras 2.0  *)
(* reports them), `weights` the trainable parameters.                      *)
(***************************************************************************)
Metrics(nb) == IF nb = "tensorboard" THEN {"acc", "mean_absolute_error"} ELSE {"acc"}

\* the compiled Sequential model of the layers `ls`, its parameters initialised
Sequential(input_shape, ls, w) ==
    [input_shape |-> input_shape,
     layers |-> ls,
     units |-> ls[Len(ls)].out[Len(ls[Len(ls)].out)],
     metrics |-> Metrics(notebook),
     weights |-> w]

\* the parameters after a gradient step overflowed: every one of them is nan
nan == 0 - 1

\* a scalar that is not finite
NotANumber == [num |-> 0, den |-> 0]

\* the class the network gives a row: argmax over its softmax output (over an
\* output of nan only, argmax is index 0)
Predict(weights, row) == IF weights = nan THEN 0 ELSE (Px(row).num + weights) % model.units

\* rows i of x, y (same length) the network with these weights gets wrong
Wrong(weights, x, y, rows) ==
    Cardinality({ i \in rows : Predict(weights, x[i]) # argmax(Val(y[i])) })

\* loss and metric values over n rows of which `wrong` are misclassified
Outs(wrong, n) ==
    [t \in {"loss"} \cup model.metrics |->
        CASE t = "loss" -> [num |-> wrong, den |-> n]
          [] t = "acc"  -> [num |-> n - wrong, den |-> n]
          [] OTHER      -> [num |-> 2 * wrong, den |-> n * model.units]]

\* the same of a network with these parameters: nan parameters give a nan loss
\* and a nan mean absolute error, and the accuracy of its argmax
OutsOf(weights, wrong, n) ==
    [t \in {"loss"} \cup model.metrics |->
        IF weights = nan /\ t # "acc" THEN NotANumber ELSE Outs(wrong, n)[t]]

\* Model._test_loop over the whole split
test_loop(weights, x, y) == OutsOf(weights, Wrong(weights, x, y, 1..Len(x)), Len(x))

ValTag(t) == CASE t = "loss" -> "val_loss"
               [] t = "acc"  -> "val_acc"
               [] OTHER      -> "val_mean_absolute_error"

\* epoch logs that keep the training outs only
epoch_logs_training_only(outs, val_outs) == outs

\* epoch_logs: the training outs, and the validation outs under val_ names
epoch_logs(outs, val_outs) ==
    [t \in DOMAIN outs \cup { ValTag(u) : u \in DOMAIN val_outs } |->
        IF t \in DOMAIN outs THEN outs[t]
        ELSE val_outs[CHOOSE u \in DOMAIN val_outs : ValTag(u) = t]]

\* a check of the inputs only: targets of any width are fed to the loss
Standardized_inputs_only(x, y) ==
    /\ FeatureShape(notebook) = model.input_shape
    /\ Len(x) = Len(y)

\* a check of the targets only: inputs of any shape are fed to the model
Standardized_unchecked(x, y) ==
    /\ Len(x) = Len(y)
    /\ \A i \in 1..Len(y) : Len(Val(y[i])) = model.units

\* _standardize_user_data: every input of the shape the first layer declares,
\* every target as wide as the output layer, and as many targets as inputs
Standardized(x, y) ==
    /\ FeatureShape(notebook) = model.input_shape
    /\ Len(x) = Len(y)
    /\ \A i \in 1..Len(y) : Len(Val(y[i])) = model.units

\* a batch count that leaves a last partial batch out
NumBatches_floor(size) == size \div cfg.batch_size

\* make_batches(size, batch_size): the index range of batch b (0-based)
NumBatches(size) == (size + cfg.batch_size - 1) \div cfg.batch_size

Batch(size, b) == (b * cfg.batch_size + 1)..Min((b + 1) * cfg.batch_size, size)

TagOrder == << "loss", "acc", "mean_absolute_error",
               "val_loss", "val_acc", "val_mean_absolute_error" >>

IsTagOf(lg, t) == t \in DOMAIN lg

\* a callback that writes the training scalars only
EpochEvents_without_validation(dir, run, epoch, lg) ==
    LET tags == SelectSeq(SubSeq(TagOrder, 1, 3), LAMBDA t : IsTagOf(lg, t))
    IN  [k \in 1..Len(tags) |-> [dir |-> dir, run |-> run, tag |-> tags[k], step |-> epoch]]

\* TensorBoard.on_epoch_end: one scalar event per name of the epoch's logs
EpochEvents(dir, run, epoch, lg) ==
    LET tags == SelectSeq(TagOrder, LAMBDA t : IsTagOf(lg, t))
    IN  [k \in 1..Len(tags) |-> [dir |-> dir, run |-> run, tag |-> tags[k], step |-> epoch]]

\* TensorBoard.set_model: the FileWriter creates the directory and its event file
OpenEvent(dir, run) == [dir |-> dir, run |-> run, tag |-> "open", step |-> -1]

NoFit == [epoch |-> 0, batch |-> 0, wrong |-> 0, seen |-> 0, history |-> << >>]

\* The second kernel: its own EXPERIMENT_COUNTER and TensorBoard callback, the
\* epoch of its running fit, its training invocations so far.  NoKernel: there is
\* none.  SecondKernel: one that has run part_000's cells down to the counter cell.
NoKernel == [pc |-> "none", EXPERIMENT_COUNTER |-> 0, tensorboard |-> 0, epoch |-> 0,
             invocations |-> 0]

SecondKernel == [pc |-> "built", EXPERIMENT_COUNTER |-> 1, tensorboard |-> 0, epoch |-> 0,
                 invocations |-> 0]

\* the run number of the second kernel's n-th invocation, as the logs record it
OtherRun(n) == 0 - n

\* the scalars part_000's model logs at an epoch's end
OtherEpochEvents(dir, run, epoch) ==
    [k \in 1..Len(TagOrder) |-> [dir |-> dir, run |-> run, tag |-> TagOrder[k], step |-> epoch]]

(***************************************************************************)
(* Initial states.                                                         *)
(***************************************************************************)
InitKernel ==
    /\ TRAIN_EXAMPLES = 0 /\ TEST_EXAMPLES = 0
    /\ x_train = None /\ y_train = None /\ x_test = None /\ y_test = None
    /\ model = None
    /\ EXPERIMENT_COUNTER = 0
    /\ tensorboard = 0
    /\ logs = << >>
    /\ fitState = NoFit
    /\ history = None /\ score = None /\ prediction = None /\ matrix = None
    /\ invocations = 0 /\ steps = 0
    /\ pc = "start"

Init == notebook \in Notebooks /\ cfg = SmallCfg /\ InitKernel /\ other = NoKernel

(***************************************************************************)
(* The cells.                                                              *)
(***************************************************************************)
\* The loading cell and the model cell are the first two cells.  part_000 and
\* part_001 write them as two cells, neither of which uses a name the other
\* binds; in part_002 they are the top and the middle of one cell.  A pass runs
\* them top to bottom; with cfg.any_order the two separate cells run in either
\* order, and the position after the model cell alone is "model_built".
FirstCells == IF cfg.any_order /\ notebook # "cnn" THEN {"start", "model_built"}
                                                     ELSE {"start"}

SecondCells == IF cfg.any_order /\ notebook # "cnn" THEN {"start", "loaded"}
                                                      ELSE {"loaded"}

\* the data loading cell, with the requested counts written into it
LoadData(trainN, testN) ==
    /\ pc \in FirstCells
    /\ TRAIN_EXAMPLES' = trainN
    /\ TEST_EXAMPLES' = testN
    /\ \E train_mask \in Masks(notebook, cfg.train, trainN),
          test_mask \in Masks(notebook, cfg.test, testN) :
          LET r == IF notebook = "tensorboard" THEN LoadSlice(trainN, testN)
                   ELSE LoadMask(train_mask, test_mask)
          IN  /\ x_train' = r.x_train /\ y_train' = r.y_train
              /\ x_test' = r.x_test /\ y_test' = r.y_test
              /\ pc' = IF ~r.ok THEN "load_failed"
                       ELSE IF pc = "start" THEN "loaded" ELSE "built"
    /\ UNCHANGED << other, notebook, cfg, model, EXPERIMENT_COUNTER, tensorboard, logs, fitState,
                    history, score, prediction, matrix, invocations, steps >>

\* model = Sequential(); model.add(...); model.compile(...).  The cell holds one
\* of the stacks the notebooks write (it is edited to try an architecture, as the
\* loading cell's counts are); add raises at a layer that rejects its input
BuildModel ==
    /\ pc \in SecondCells
    /\ \E stack \in Stacks, w \in 0..(cfg.num_classes - 1) :
          \E ls \in { OutputShapes(stack.layers, stack.input_shape) } :
              IF Len(ls) = Len(stack.layers) /\ ls[Len(ls)].out # NoShape
              THEN /\ model' = Sequential(stack.input_shape, ls, w)
                   /\ pc' = IF pc = "loaded" THEN "built" ELSE "model_built"
              ELSE /\ model' = model
                   /\ pc' = "build_failed"
    /\ UNCHANGED << other, notebook, cfg, TRAIN_EXAMPLES, TEST_EXAMPLES, x_train, y_train, x_test,
                    y_test, EXPERIMENT_COUNTER, tensorboard, logs, fitState, history, score,
                    prediction, matrix, invocations, steps >>

\* EXPERIMENT_COUNTER = 1
CounterCell ==
    /\ notebook = "tensorboard"
    /\ pc \in {"built", "trained", "fit_failed"}
    /\ EXPERIMENT_COUNTER' = 1
    /\ UNCHANGED << other, notebook, cfg, TRAIN_EXAMPLES, TEST_EXAMPLES, x_train, y_train, x_test,
                    y_test, model, tensorboard, logs, fitState, history, score, prediction,
                    matrix, invocations, steps, pc >>

\* a training cell whose log_dir is written without the counter
TrainingCellBegin_FixedDir ==
    /\ pc \in (IF notebook = "cnn" THEN {"built"} ELSE {"built", "trained", "fit_failed"})
    /\ notebook = "tensorboard" => EXPERIMENT_COUNTER # 0
    /\ invocations < cfg.runs
    /\ invocations' = invocations + 1
    /\ tensorboard' = IF notebook = "tensorboard" THEN 1 ELSE 0
    /\ IF Standardized(x_train, y_train) /\ Standardized(x_test, y_test)
       THEN /\ pc' = "fit"
            /\ fitState' = NoFit
            /\ logs' = IF notebook = "tensorboard"
                       THEN Append(logs, OpenEvent(1, invocations + 1))
                       ELSE logs
       ELSE /\ pc' = "fit_failed"
            /\ UNCHANGED << fitState, logs >>
    /\ UNCHANGED << other, notebook, cfg, TRAIN_EXAMPLES, TEST_EXAMPLES, x_train, y_train, x_test,
                    y_test, model, EXPERIMENT_COUNTER, history, score, prediction, matrix,
                    steps >>

\* the training cell up to the first epoch: TensorBoard(log_dir=...), then fit
\* checks its arrays, makes a new History and sets the callbacks up
TrainingCellBegin ==
    /\ pc \in (IF notebook = "cnn" THEN {"built"} ELSE {"built", "trained", "fit_failed"})
    /\ notebook = "tensorboard" => EXPERIMENT_COUNTER # 0
    /\ invocations < cfg.runs
    /\ invocations' = invocations + 1
    /\ tensorboard' = IF notebook = "tensorboard" THEN EXPERIMENT_COUNTER ELSE 0
    /\ IF Standardized(x_train, y_train) /\ Standardized(x_test, y_test)
       THEN /\ pc' = "fit"
            /\ fitState' = NoFit
            /\ logs' = IF notebook = "tensorboard"
                       THEN Append(logs, OpenEvent(EXPERIMENT_COUNTER, invocations + 1))
                       ELSE logs
       ELSE /\ pc' = "fit_failed"
            /\ UNCHANGED << fitState, logs >>
    /\ UNCHANGED << other, notebook, cfg, TRAIN_EXAMPLES, TEST_EXAMPLES, x_train, y_train, x_test,
                    y_test, model, EXPERIMENT_COUNTER, history, score, prediction, matrix,
                    steps >>

\* the parameters after the gradient step of a batch with w rows wrong; nan
\* parameters stay nan
Step(weights, w) == IF weights = nan THEN nan ELSE (weights + w) % model.units

\* the batches b, b+1, ... below `upto` of one epoch of _fit_loop, in order: each
\* is a gradient step on the batch's rows, and adds its misclassified rows to the
\* epoch's running totals and its rows to the samples seen.  A range of several
\* batches is its first half followed by its second half, the second starting
\* from the parameters and totals the first ends with.
RECURSIVE TrainBatches(_, _, _, _)
TrainBatches(weights, wrong, b, upto) ==
    IF b >= upto THEN [weights |-> weights, wrong |-> wrong, seen |-> 0]
    ELSE IF upto = b + 1 THEN
        LET w == Wrong(weights, x_train, y_train, Batch(Len(x_train), b))
        IN  [weights |-> Step(weights, w),
             wrong   |-> wrong + w,
             seen    |-> Cardinality(Batch(Len(x_train), b))]
    ELSE
        LET mid == (b + upto) \div 2
        IN  CHOOSE r \in { [TrainBatches(first.weights, first.wrong, mid, upto)
                               EXCEPT !.seen = first.seen + @] :
                           first \in { TrainBatches(weights, wrong, b, mid) } } : TRUE

\* an epoch whose History keeps the last record only
TrainEpoch_Overwrite ==
    /\ pc = "fit"
    /\ fitState.epoch < cfg.epochs
    /\ \E r \in { TrainBatches(model.weights, 0, 0, NumBatches(Len(x_train))) } :
       \E lg \in { epoch_logs(OutsOf(r.weights, r.wrong, Len(x_train)),
                              test_loop(r.weights, x_test, y_test)) } :
           /\ model' = [model EXCEPT !.weights = r.weights]
           /\ fitState' = [epoch |-> fitState.epoch + 1, batch |-> 0, wrong |-> 0, seen |-> r.seen,
                           history |-> << [epoch |-> fitState.epoch, logs |-> lg] >>]
           /\ logs' = IF notebook = "tensorboard"
                      THEN logs \o EpochEvents(tensorboard, invocations, fitState.epoch, lg)
                      ELSE logs
    /\ steps' = steps + NumBatches(Len(x_train))
    /\ UNCHANGED << other, notebook, cfg, TRAIN_EXAMPLES, TEST_EXAMPLES, x_train, y_train, x_test,
                    y_test, EXPERIMENT_COUNTER, tensorboard, history, score, prediction,
                    matrix, invocations, pc >>

\* one epoch of _fit_loop: every batch, then validation, then History and
\* TensorBoard on_epoch_end
TrainEpoch ==
    /\ pc = "fit"
    /\ fitState.epoch < cfg.epochs
    /\ \E r \in { TrainBatches(model.weights, 0, 0, NumBatches(Len(x_train))) } :
       \E lg \in { epoch_logs(OutsOf(r.weights, r.wrong, Len(x_train)),
                              test_loop(r.weights, x_test, y_test)) } :
           /\ model' = [model EXCEPT !.weights = r.weights]
           /\ fitState' = [epoch |-> fitState.epoch + 1, batch |-> 0, wrong |-> 0, seen |-> r.seen,
                           history |-> Append(fitState.history,
                                              [epoch |-> fitState.epoch, logs |-> lg])]
           /\ logs' = IF notebook = "tensorboard"
                      THEN logs \o EpochEvents(tensorboard, invocations, fitState.epoch, lg)
                      ELSE logs
    /\ steps' = steps + NumBatches(Len(x_train))
    /\ UNCHANGED << other, notebook, cfg, TRAIN_EXAMPLES, TEST_EXAMPLES, x_train, y_train, x_test,
                    y_test, EXPERIMENT_COUNTER, tensorboard, history, score, prediction,
                    matrix, invocations, pc >>

\* an epoch that stops the training when its loss is not finite
TrainEpochDiverge_Terminate ==
    /\ pc = "fit"
    /\ fitState.epoch < cfg.epochs
    /\ model.weights # nan
    /\ \E r \in { [TrainBatches(model.weights, 0, 0, NumBatches(Len(x_train)))
                    EXCEPT !.weights = nan] } :
       \E lg \in { epoch_logs(OutsOf(r.weights, r.wrong, Len(x_train)),
                              test_loop(r.weights, x_test, y_test)) } :
           /\ model' = [model EXCEPT !.weights = r.weights]
           /\ fitState' = [epoch |-> cfg.epochs, batch |-> 0, wrong |-> 0, seen |-> r.seen,
                           history |-> Append(fitState.history,
                                              [epoch |-> fitState.epoch, logs |-> lg])]
           /\ logs' = IF notebook = "tensorboard"
                      THEN logs \o EpochEvents(tensorboard, invocations, fitState.epoch, lg)
                      ELSE logs
    /\ steps' = steps + NumBatches(Len(x_train))
    /\ UNCHANGED << other, notebook, cfg, TRAIN_EXAMPLES, TEST_EXAMPLES, x_train, y_train, x_test,
                    y_test, EXPERIMENT_COUNTER, tensorboard, history, score, prediction,
                    matrix, invocations, pc >>

\* an epoch in which a gradient step overflows: fit has no callback that looks
\* at the loss, so the epoch ends as any other, its parameters and loss nan
TrainEpochDiverge ==
    /\ pc = "fit"
    /\ fitState.epoch < cfg.epochs
    /\ model.weights # nan
    /\ \E r \in { [TrainBatches(model.weights, 0, 0, NumBatches(Len(x_train)))
                    EXCEPT !.weights = nan] } :
       \E lg \in { epoch_logs(OutsOf(r.weights, r.wrong, Len(x_train)),
                              test_loop(r.weights, x_test, y_test)) } :
           /\ model' = [model EXCEPT !.weights = r.weights]
           /\ fitState' = [epoch |-> fitState.epoch + 1, batch |-> 0, wrong |-> 0, seen |-> r.seen,
                           history |-> Append(fitState.history,
                                              [epoch |-> fitState.epoch, logs |-> lg])]
           /\ logs' = IF notebook = "tensorboard"
                      THEN logs \o EpochEvents(tensorboard, invocations, fitState.epoch, lg)
                      ELSE logs
    /\ steps' = steps + NumBatches(Len(x_train))
    /\ UNCHANGED << other, notebook, cfg, TRAIN_EXAMPLES, TEST_EXAMPLES, x_train, y_train, x_test,
                    y_test, EXPERIMENT_COUNTER, tensorboard, history, score, prediction,
                    matrix, invocations, pc >>

\* a training cell without its last line
TrainingCellReturn_NoIncrement ==
    /\ pc = "fit"
    /\ fitState.epoch = cfg.epochs
    /\ history' = fitState.history
    /\ pc' = "trained"
    /\ UNCHANGED << other, notebook, cfg, TRAIN_EXAMPLES, TEST_EXAMPLES, x_train, y_train, x_test,
                    y_test, model, EXPERIMENT_COUNTER, tensorboard, logs, fitState, score,
                    prediction, matrix, invocations, steps >>

\* fit returns its History; part_000's cell then does EXPERIMENT_COUNTER += 1
TrainingCellReturn ==
    /\ pc = "fit"
    /\ fitState.epoch = cfg.epochs
    /\ history' = fitState.history
    /\ EXPERIMENT_COUNTER' = IF notebook = "tensorboard" THEN EXPERIMENT_COUNTER + 1
                             ELSE EXPERIMENT_COUNTER
    /\ pc' = "trained"
    /\ UNCHANGED << other, notebook, cfg, TRAIN_EXAMPLES, TEST_EXAMPLES, x_train, y_train, x_test,
                    y_test, model, tensorboard, logs, fitState, score, prediction, matrix,
                    invocations, steps >>

\* a cell that swallows the error of fit and goes on as if fit had returned
TrainingCellRaise_Ignored ==
    /\ pc = "fit"
    /\ \E b \in 0..(IF fitState.epoch < cfg.epochs THEN NumBatches(Len(x_train)) - 1 ELSE 0) :
          \E r \in { TrainBatches(model.weights, 0, 0, b) } :
              /\ model' = [model EXCEPT !.weights = r.weights]
              /\ fitState' = [fitState EXCEPT !.batch = b, !.wrong = r.wrong, !.seen = r.seen]
              /\ steps' = steps + b
    /\ pc' = "trained"
    /\ UNCHANGED << other, notebook, cfg, TRAIN_EXAMPLES, TEST_EXAMPLES, x_train, y_train, x_test,
                    y_test, EXPERIMENT_COUNTER, tensorboard, logs, history, score,
                    prediction, matrix, invocations >>

\* fit raises part-way (an interrupt, a resource error of the backend), after b
\* batches of the current epoch: the cell stops there, the statements after fit
\* do not run
TrainingCellRaise ==
    /\ pc = "fit"
    /\ \E b \in 0..(IF fitState.epoch < cfg.epochs THEN NumBatches(Len(x_train)) - 1 ELSE 0) :
          \E r \in { TrainBatches(model.weights, 0, 0, b) } :
              /\ model' = [model EXCEPT !.weights = r.weights]
              /\ fitState' = [fitState EXCEPT !.batch = b, !.wrong = r.wrong, !.seen = r.seen]
              /\ steps' = steps + b
    /\ pc' = "fit_failed"
    /\ UNCHANGED << other, notebook, cfg, TRAIN_EXAMPLES, TEST_EXAMPLES, x_train, y_train, x_test,
                    y_test, EXPERIMENT_COUNTER, tensorboard, logs, history, score,
                    prediction, matrix, invocations >>

\* an evaluation that takes a gradient step on the rows it measures
Evaluate_Training ==
    /\ pc = "trained"
    /\ score' = test_loop(model.weights, x_test, y_test)
    /\ model' = [model EXCEPT !.weights =
                     (@ + Wrong(@, x_test, y_test, 1..Len(x_test))) % model.units]
    /\ pc' = "evaluated"
    /\ UNCHANGED << other, notebook, cfg, TRAIN_EXAMPLES, TEST_EXAMPLES, x_train, y_train, x_test,
                    y_test, EXPERIMENT_COUNTER, tensorboard, logs, fitState, history,
                    prediction, matrix, invocations, steps >>

\* an evaluation of the model as built, before it is trained
Evaluate_Untrained ==
    /\ pc \in {"built", "trained"}
    /\ score' = test_loop(model.weights, x_test, y_test)
    /\ pc' = "evaluated"
    /\ UNCHANGED << other, notebook, cfg, TRAIN_EXAMPLES, TEST_EXAMPLES, x_train, y_train, x_test,
                    y_test, model, EXPERIMENT_COUNTER, tensorboard, logs, fitState, history,
                    prediction, matrix, invocations, steps >>

\* an evaluation that runs whether or not fit completed
Evaluate_AfterFailure ==
    /\ pc \in {"trained", "fit_failed"}
    /\ score' = test_loop(model.weights, x_test, y_test)
    /\ pc' = "evaluated"
    /\ UNCHANGED << other, notebook, cfg, TRAIN_EXAMPLES, TEST_EXAMPLES, x_train, y_train, x_test,
                    y_test, model, EXPERIMENT_COUNTER, tensorboard, logs, fitState, history,
                    prediction, matrix, invocations, steps >>

\* score = model.evaluate(x_test, y_test, verbose=0)
Evaluate ==
    /\ pc = "trained"
    /\ score' = test_loop(model.weights, x_test, y_test)
    /\ pc' = "evaluated"
    /\ UNCHANGED << other, notebook, cfg, TRAIN_EXAMPLES, TEST_EXAMPLES, x_train, y_train, x_test,
                    y_test, model, EXPERIMENT_COUNTER, tensorboard, logs, fitState, history,
                    prediction, matrix, invocations, steps >>

\* predictions of a network other than the one evaluate measured
predict_classes_other(x) == [i \in 1..Len(x) |-> Predict(model.weights + 1, x[i])]

\* model.predict_classes(x): the predicted class of every row
predict_classes(x) == [i \in 1..Len(x) |-> Predict(model.weights, x[i])]

\* prediction = model.predict_classes(x_test)
PredictClasses ==
    /\ pc = "evaluated"
    /\ prediction' = predict_classes(x_test)
    /\ pc' = "predicted"
    /\ UNCHANGED << other, notebook, cfg, TRAIN_EXAMPLES, TEST_EXAMPLES, x_train, y_train, x_test,
                    y_test, model, EXPERIMENT_COUNTER, tensorboard, logs, fitState, history,
                    score, matrix, invocations, steps >>

\* sklearn.metrics.confusion_matrix(y_true, y_pred) with no labels argument: the
\* labels are the sorted values that occur in y_true or y_pred, one row and one
\* column per label
confusion_matrix(y_true, y_pred) ==
    LET labels == Range(y_true) \cup Range(y_pred)
        LabelAt(r) == CHOOSE l \in labels : Cardinality({ m \in labels : m <= l }) = r
        Count(t, p) == Cardinality({ i \in 1..Len(y_true) : y_true[i] = t /\ y_pred[i] = p })
    IN  [r \in 1..Cardinality(labels) |->
            [c \in 1..Cardinality(labels) |-> Count(LabelAt(r), LabelAt(c))]]

\* numpy.argmax(y, 1)
argmax_rows(y) == [i \in 1..Len(y) |-> argmax(Val(y[i]))]

RECURSIVE SumSeq(_)
SumSeq(v) == IF v = << >> THEN 0 ELSE Head(v) + SumSeq(Tail(v))

\* m.astype(numpy.float).sum(axis=1): the vector of the sums of the rows
sum_axis1(m) == [r \in 1..Len(m) |-> SumSeq(m[r])]

\* m / v of a two-dimensional m and a one-dimensional v: numpy aligns v with the
\* last axis of m, so the entry in column c is divided by v[c]
divide(m, v) ==
    [r \in 1..Len(m) |-> [c \in 1..Len(m[r]) |-> [num |-> m[r][c], den |-> v[c]]]]

\* the data of sns.heatmap(matrix / matrix.astype(numpy.float).sum(axis=1), ...)
heatmap(m) == divide(m, sum_axis1(m))

\* matrix = confusion_matrix(numpy.argmax(y_test, 1), prediction)
ConfusionMatrix ==
    /\ pc = "predicted"
    /\ matrix' = confusion_matrix(argmax_rows(y_test), prediction)
    /\ pc' = "tabulated"
    /\ UNCHANGED << other, notebook, cfg, TRAIN_EXAMPLES, TEST_EXAMPLES, x_train, y_train, x_test,
                    y_test, model, EXPERIMENT_COUNTER, tensorboard, logs, fitState, history,
                    score, prediction, invocations, steps >>

Cells ==
    \/ BuildModel
    \/ CounterCell
    \/ TrainingCellBegin
    \/ TrainEpoch
    \/ TrainingCellReturn
    \/ TrainingCellRaise
    \/ Evaluate
    \/ PredictClasses
    \/ ConfusionMatrix

Next ==
    \/ \E trainN \in 1..(cfg.train + 1), testN \in 1..(cfg.test + 1) : LoadData(trainN, testN)
    \/ Cells

Spec == Init /\ [][Next]_vars

(***************************************************************************)
(* part_000 with the numbers written in it: 6000 and 1000 rows of the      *)
(* 60000/10000 corpus, batches of 128, 10 epochs, 10 classes.              *)
(***************************************************************************)
InitScenario ==
    notebook = "tensorboard" /\ cfg = NotebookCfg /\ InitKernel /\ other = NoKernel

\* the scenario's run is one that does not raise
NextScenario ==
    \/ LoadData(ScenarioTrain, ScenarioTest)
    \/ BuildModel
    \/ CounterCell
    \/ TrainingCellBegin
    \/ TrainEpoch
    \/ TrainingCellReturn
    \/ Evaluate
    \/ PredictClasses
    \/ ConfusionMatrix

SpecScenario == InitScenario /\ [][NextScenario]_vars

(***************************************************************************)
(* part_000 run top to bottom once, and then its training cell again and   *)
(* again, no fit raising: the runs are sequential and none of them fails   *)
(* part-way.                                                               *)
(***************************************************************************)
SequentialCfg == [SmallCfg EXCEPT !.runs = MaxRuns + 1]

InitSequential ==
    notebook = "tensorboard" /\ cfg = SequentialCfg /\ InitKernel /\ other = NoKernel

NextSequential ==
    \/ \E trainN \in 1..cfg.train, testN \in 1..cfg.test : LoadData(trainN, testN)
    \/ BuildModel
    \/ EXPERIMENT_COUNTER = 0 /\ CounterCell
    \/ TrainingCellBegin
    \/ TrainEpoch
    \/ TrainEpochDiverge
    \/ TrainingCellReturn

SpecSequential == InitSequential /\ [][NextSequential]_vars

(***************************************************************************)
(* The notebooks' training when a gradient step may overflow: the loading  *)
(* cell with counts within the corpus, the model cell, and the training    *)
(* cell, whose epochs may diverge and whose fit may raise.                 *)
(***************************************************************************)
NextDivergence ==
    \/ \E trainN \in 1..cfg.train, testN \in 1..cfg.test : LoadData(trainN, testN)
    \/ BuildModel
    \/ CounterCell
    \/ TrainingCellBegin
    \/ TrainEpoch
    \/ TrainEpochDiverge
    \/ TrainingCellReturn
    \/ TrainingCellRaise

SpecDivergence == Init /\ [][NextDivergence]_vars

(***************************************************************************)
(* The notebooks with a test corpus of one row more, so that the classes   *)
(* of the test rows are of unequal size.                                   *)
(***************************************************************************)
HeatmapCfg == [SmallCfg EXCEPT !.test = TestCorpus + 1]

InitHeatmap == notebook \in Notebooks /\ cfg = HeatmapCfg /\ InitKernel /\ other = NoKernel

SpecHeatmap == InitHeatmap /\ [][Next]_vars

(***************************************************************************)
(* The notebooks with their first two cells run in either order.           *)
(***************************************************************************)
InitAnyOrder == notebook \in Notebooks /\ cfg = AnyOrderCfg /\ InitKernel /\ other = NoKernel

SpecAnyOrder == InitAnyOrder /\ [][Next]_vars

(***************************************************************************)
(* Two kernels run part_000 in the same working directory, each with its   *)
(* own names and both writing under ./logs.  The first kernel is the one   *)
(* above, with the counts written in its cell; the steps of the second     *)
(* kernel's training cell interleave with it.                              *)
(***************************************************************************)
KernelVars == << pc, fitState, EXPERIMENT_COUNTER, tensorboard, invocations, steps,
                 notebook, cfg, TRAIN_EXAMPLES, TEST_EXAMPLES, x_train, y_train,
                 x_test, y_test, model, history, score, prediction, matrix >>

\* a training cell that writes under a directory of its kernel's own
OtherTrainingCellBegin_OwnDir ==
    /\ other.pc \in {"built", "trained"}
    /\ other.invocations < cfg.runs
    /\ other' = [other EXCEPT !.pc = "fit", !.epoch = 0,
                               !.tensorboard = other.EXPERIMENT_COUNTER + cfg.runs + 1,
                               !.invocations = @ + 1]
    /\ logs' = Append(logs, OpenEvent(other.EXPERIMENT_COUNTER + cfg.runs + 1,
                                      OtherRun(other.invocations + 1)))
    /\ UNCHANGED KernelVars

\* the second kernel's training cell up to the first epoch
OtherTrainingCellBegin ==
    /\ other.pc \in {"built", "trained"}
    /\ other.invocations < cfg.runs
    /\ other' = [other EXCEPT !.pc = "fit", !.epoch = 0,
                               !.tensorboard = other.EXPERIMENT_COUNTER,
                               !.invocations = @ + 1]
    /\ logs' = Append(logs, OpenEvent(other.EXPERIMENT_COUNTER,
                                      OtherRun(other.invocations + 1)))
    /\ UNCHANGED KernelVars

\* one epoch of the second kernel's fit
OtherTrainEpoch ==
    /\ other.pc = "fit"
    /\ other.epoch < cfg.epochs
    /\ other' = [other EXCEPT !.epoch = @ + 1]
    /\ logs' = logs \o OtherEpochEvents(other.tensorboard, OtherRun(other.invocations),
                                         other.epoch)
    /\ UNCHANGED KernelVars

\* the second kernel's fit returns, and its cell does EXPERIMENT_COUNTER += 1
OtherTrainingCellReturn ==
    /\ other.pc = "fit"
    /\ other.epoch = cfg.epochs
    /\ other' = [other EXCEPT !.pc = "trained", !.EXPERIMENT_COUNTER = @ + 1]
    /\ UNCHANGED << logs, KernelVars >>

InitTwoKernels ==
    notebook = "tensorboard" /\ cfg = SmallCfg /\ InitKernel /\ other = SecondKernel

NextTwoKernels ==
    \/ LoadData(cfg.train, cfg.test)
    \/ BuildModel
    \/ CounterCell
    \/ TrainingCellBegin
    \/ TrainEpoch
    \/ TrainingCellReturn
    \/ OtherTrainingCellBegin
    \/ OtherTrainEpoch
    \/ OtherTrainingCellReturn

SpecTwoKernels == InitTwoKernels /\ [][NextTwoKernels]_vars

(***************************************************************************)
(* Vocabulary of the properties.                                           *)
(***************************************************************************)
Loaded == pc \notin {"start", "load_failed", "model_built", "build_failed"}

Built == pc \notin {"start", "load_failed", "loaded", "build_failed"}

AfterTraining == pc \in {"trained", "evaluated", "predicted", "tabulated"}

Sources(x) == { Src(x[i]) : i \in 1..Len(x) }

MatrixSum(m) == SumSeq([r \in 1..Len(m) |-> SumSeq(m[r])])

Diagonal(m) == SumSeq([r \in 1..Len(m) |-> m[r][r]])

\* evaluated rows of true class t that were predicted as class p
Tabulated(t, p) ==
    Cardinality({ i \in 1..Len(prediction) : argmax(Val(y_test[i])) = t /\ prediction[i] = p })

Correct == Cardinality({ i \in 1..Len(prediction) : argmax(Val(y_test[i])) = prediction[i] })

Classes == 0..(cfg.num_classes - 1)

IsPrefix(s, t) == Len(s) <= Len(t) /\ SubSeq(t, 1, Len(s)) = s

(***************************************************************************)
(* C1.  Distinct training runs never write to the same log directory: no   *)
(* two training invocations, completed or failed part-way, have events     *)
(* under the same logs/experiment-<N>.                                     *)
(* The code contradicts it: a fit that raises leaves the counter as it     *)
(* was, and the next run of the cell opens the same directory.             *)
(***************************************************************************)
C1_DistinctRunsDistinctDirs ==
    \A i, j \in 1..Len(logs) : logs[i].dir = logs[j].dir => logs[i].run = logs[j].run

(***************************************************************************)
(* C2.  EXPERIMENT_COUNTER is incremented exactly once per completed       *)
(* training invocation: when fit returns the counter becomes one greater   *)
(* than it was when the cell started (the number in its log_dir), and a    *)
(* fit that raises, like every step inside fit, leaves it unchanged.       *)
(***************************************************************************)
C2_CounterOncePerCompletedRun ==
    [][notebook = "tensorboard" =>
        \* the cell starts (and fit may raise at once, on its arrays)
        /\ invocations' # invocations =>
              EXPERIMENT_COUNTER' = EXPERIMENT_COUNTER /\ tensorboard' = EXPERIMENT_COUNTER
        \* fit returns
        /\ (pc = "fit" /\ pc' = "trained") =>
              EXPERIMENT_COUNTER = tensorboard /\ EXPERIMENT_COUNTER' = tensorboard + 1
        \* a step inside fit, or fit raises
        /\ (pc = "fit" /\ pc' # "trained") =>
              EXPERIMENT_COUNTER = tensorboard /\ EXPERIMENT_COUNTER' = tensorboard]_vars

\* one run raised part-way and the next one completed
C2_Witness ==
    /\ notebook = "tensorboard" /\ pc = "trained" /\ invocations = 2
    /\ tensorboard = 1 /\ EXPERIMENT_COUNTER = 2
    /\ Len(SelectSeq(logs, LAMBDA e : e.tag = "open")) = 2

(***************************************************************************)
(* C3.  For every requested count n that is at most the corpus size of a   *)
(* split, the loader returns exactly n feature rows and n label rows for   *)
(* that split, whatever the other split's count.                           *)
(* The code contradicts it: part_000 cuts x_test from the already cut      *)
(* x_train, so it has min(TEST_EXAMPLES, TRAIN_EXAMPLES) rows.             *)
(***************************************************************************)
C3_LoaderReturnsRequestedCounts ==
    Loaded =>
        /\ TRAIN_EXAMPLES <= cfg.train =>
              Len(x_train) = TRAIN_EXAMPLES /\ Len(y_train) = TRAIN_EXAMPLES
        /\ TEST_EXAMPLES <= cfg.test =>
              Len(x_test) = TEST_EXAMPLES /\ Len(y_test) = TEST_EXAMPLES

(***************************************************************************)
(* C4.  Requesting more examples than a split contains fails in the        *)
(* loader, and no batch step of training is ever executed in such a pass.  *)
(* The code contradicts it: part_000's slices silently give the whole      *)
(* split, and training goes on.                                            *)
(***************************************************************************)
C4_TooManyRequestedFailsBeforeTraining ==
    (TRAIN_EXAMPLES > cfg.train \/ TEST_EXAMPLES > cfg.test) =>
        pc = "load_failed" /\ steps = 0

(***************************************************************************)
(* C5.  The training and test subsets the loader produces are disjoint:    *)
(* no example whose features are used for test/validation is an example    *)
(* of the training subset.                                                 *)
(* The code contradicts it: part_000 takes x_test from x_train.            *)
(***************************************************************************)
C5_TrainTestDisjoint ==
    Loaded => Sources(x_train) \cap Sources(x_test) = {}

(***************************************************************************)
(* C6.  For every label y in [0, K), the one-hot encoding is a vector of   *)
(* length K with a 1 at index y and 0 elsewhere, its entries sum to 1, and *)
(* argmax of it returns y.  Checked on every label row the loader encodes. *)
(***************************************************************************)
C6_OneHot ==
    Loaded =>
        \A y \in {y_train, y_test} : \A i \in 1..Len(y) :
            LET v == Val(y[i])
                label == Label(Src(y[i]))
            IN  /\ label \in Classes
                /\ Len(v) = cfg.num_classes
                /\ \A j \in 1..Len(v) : v[j] = (IF j = label + 1 THEN 1 ELSE 0)
                /\ SumSeq(v) = 1
                /\ argmax(v) = label

\* a loaded training split in which every class occurs
C6_Witness ==
    /\ Loaded
    /\ { argmax(Val(y_train[i])) : i \in 1..Len(y_train) } = Classes
    /\ cfg.num_classes >= 3

(***************************************************************************)
(* C7.  The confusion matrix is a K x K grid whose cell (i, j) is the      *)
(* number of evaluated examples of true class i predicted as class j, and  *)
(* its cells sum to the number of evaluated examples.                      *)
(* The code contradicts it: confusion_matrix is called without labels, so  *)
(* the grid has one row and column per class that occurs, not K.           *)
(***************************************************************************)
C7_ConfusionMatrixKxK ==
    pc = "tabulated" =>
        /\ Len(matrix) = cfg.num_classes
        /\ \A t \in Classes : Len(matrix[t + 1]) = cfg.num_classes
        /\ \A t, p \in Classes : matrix[t + 1][p + 1] = Tabulated(t, p)
        /\ MatrixSum(matrix) = Len(x_test)

C9_HistoryPerEpoch ==
    /\ [](AfterTraining =>
            /\ Len(history) = cfg.epochs
            /\ \A k \in 1..Len(history) : history[k].epoch = k - 1)
    /\ [][pc = "fit" =>
            /\ IsPrefix(fitState.history, fitState'.history)
            /\ Len(fitState'.history) <= Len(fitState.history) + 1
            /\ Len(fitState'.history) = fitState'.epoch
            /\ pc' = "trained" => history' = fitState.history]_vars

\* a completed run of at least two epochs
C9_Witness ==
    /\ pc = "trained"
    /\ cfg.epochs >= 2
    /\ Len(history) = cfg.epochs

(***************************************************************************)
(* C10.  Scenario: 6000 training and 1000 test examples of the 60000/10000 *)
(* corpus, batch size 128, 10 epochs: the History has exactly 10 records   *)
(* and the confusion matrix of the final evaluation sums to 1000.          *)
(***************************************************************************)
C10_Scenario ==
    /\ AfterTraining => Len(history) = epochs
    /\ pc = "tabulated" => MatrixSum(matrix) = ScenarioTest

\* the scenario's pass, with its numbers, at its end
C10_Witness ==
    /\ pc = "tabulated"
    /\ cfg.train = MnistTrain /\ cfg.test = MnistTest
    /\ TRAIN_EXAMPLES = ScenarioTrain /\ TEST_EXAMPLES = ScenarioTest
    /\ Len(x_train) = ScenarioTrain /\ Len(x_test) = ScenarioTest
    /\ cfg.batch_size = batch_size /\ cfg.epochs = epochs
    /\ steps = epochs * NumBatches(ScenarioTrain)

(***************************************************************************)
(* C11.  A run is a linear state machine LOADED -> BUILT -> TRAINED ->      *)
(* EVALUATED, without cycles or branches: within a run each stage is       *)
(* entered at most once and only from its predecessor, and a failure in a  *)
(* stage halts the run, no later stage is reached.  A run is one training  *)
(* invocation with the loading and building before it and the evaluation   *)
(* after it; running the training cell again starts a new run at training, *)
(* on the arrays and the model that exist, and part_002's single cell has  *)
(* one run only.                                                           *)
(***************************************************************************)
StageSucc ==
    { << "start", "loaded" >>, << "start", "load_failed" >>, << "loaded", "built" >>,
      << "loaded", "build_failed" >>,
      << "built", "fit" >>, << "built", "fit_failed" >>,
      << "fit", "fit" >>, << "fit", "trained" >>, << "fit", "fit_failed" >>,
      << "trained", "evaluated" >>, << "evaluated", "predicted" >>,
      << "predicted", "tabulated" >> }

C12_Normalization ==
    Loaded =>
        \A x \in {x_train, x_test} : \A i \in 1..Len(x) :
            LET p == Pixel(Src(x[i]))
                v == Px(x[i])
            IN  /\ p \in 0..PixelMax
                /\ v.num * PixelMax = p * v.den
                /\ v.den > 0 /\ 0 <= v.num /\ v.num <= v.den
                /\ p = 0 => v.num = 0
                /\ p = PixelMax => v.num = v.den

\* loaded features with the darkest and the brightest pixel, in both splits
C12_Witness ==
    /\ Loaded
    /\ \E i \in 1..Len(x_train) : Pixel(Src(x_train[i])) = PixelMax
    /\ \E i \in 1..Len(x_test) : Pixel(Src(x_test[i])) = PixelMax
    /\ \E i \in 1..Len(x_test) : Pixel(Src(x_test[i])) = 0

(***************************************************************************)
(* C13.  Subsampling selects without replacement: in one run of the loader *)
(* no corpus index is selected twice for a split, every selected index     *)
(* lies inside that split's corpus, and a count equal to the corpus size   *)
(* selects every example of the split exactly once.                        *)
(* The code contradicts it: part_000 selects the test features from the    *)
(* training corpus (the aliasing of C5), so they are no examples of the    *)
(* test split.                                                             *)
(***************************************************************************)
C13_WithoutReplacement ==
    Loaded =>
        \A sp \in { [x |-> x_train, y |-> y_train, split |-> "train", n |-> TRAIN_EXAMPLES],
                    [x |-> x_test, y |-> y_test, split |-> "test", n |-> TEST_EXAMPLES] } :
            \A a \in {sp.x, sp.y} :
                /\ \A i, j \in 1..Len(a) : Src(a[i]) = Src(a[j]) => i = j
                /\ \A i \in 1..Len(a) :
                      Src(a[i]).split = sp.split /\ Src(a[i]).i \in 1..CorpusSize(sp.split)
                /\ sp.n = CorpusSize(sp.split) =>
                      Sources(a) = { Example(sp.split, i) : i \in 1..CorpusSize(sp.split) }

(***************************************************************************)
(* C14.  In every epoch the trainer partitions the training data into      *)
(* batches of batch_size rows, only the last of which may be smaller:      *)
(* every training row is in exactly one batch of the epoch, the batch      *)
(* sizes sum to the number of training rows, and there are                 *)
(* ceil(rows / batch_size) batches.  Every completed epoch has run that    *)
(* many batch steps and seen every row.                                    *)
(***************************************************************************)
C14_BatchesPartitionEpoch ==
    /\ [](pc = "fit" =>
            LET n == Len(x_train)
                nb == NumBatches(n)
                size(b) == Cardinality(Batch(n, b))
            IN  /\ \A i \in 1..n : Cardinality({ b \in 0..(nb - 1) : i \in Batch(n, b) }) = 1
                /\ \A b \in 0..(nb - 2) : size(b) = cfg.batch_size
                /\ nb > 0 => size(nb - 1) \in 1..cfg.batch_size
                /\ SumSeq([k \in 1..nb |-> size(k - 1)]) = n
                /\ nb * cfg.batch_size >= n /\ (nb - 1) * cfg.batch_size < n
                /\ fitState.epoch > 0 => fitState.seen = n)
    /\ [][(pc = "fit" /\ fitState'.epoch = fitState.epoch + 1) =>
            /\ steps' * cfg.batch_size >= steps * cfg.batch_size + Len(x_train)
            /\ (steps' - 1) * cfg.batch_size < steps * cfg.batch_size + Len(x_train)
            /\ fitState'.seen = Len(x_train)]_vars

\* an epoch completed on rows that do not fill the last batch
C14_Witness ==
    /\ pc = "fit"
    /\ fitState.epoch >= 1
    /\ NumBatches(Len(x_train)) >= 2
    /\ Len(x_train) % cfg.batch_size # 0

(***************************************************************************)
(* C15.  The Evaluator is read-only: evaluate, predict_classes and the     *)
(* confusion matrix leave the trained model (its layers and parameters),   *)
(* the run counter and the Training History unchanged; they leave the      *)
(* arrays and the logs unchanged as well.                                  *)
(***************************************************************************)
C15_EvaluatorReadOnly ==
    [][(pc \in {"trained", "evaluated", "predicted"}
            /\ pc' \in {"evaluated", "predicted", "tabulated"}) =>
          /\ model'.weights = model.weights
          /\ model'.units = model.units /\ model'.metrics = model.metrics
          /\ EXPERIMENT_COUNTER' = EXPERIMENT_COUNTER
          /\ Len(history') = Len(history)
          /\ \A k \in 1..Len(history) : history'[k] = history[k]
          /\ fitState' = fitState /\ logs' = logs /\ steps' = steps
          /\ Len(x_test') = Len(x_test) /\ Len(y_test') = Len(y_test)
          /\ \A i \in 1..Len(x_test) : x_test'[i] = x_test[i]
          /\ \A i \in 1..Len(y_test) : y_test'[i] = y_test[i]]_vars

\* an evaluation that ran to its end, on a model that gets a test row wrong
C15_Witness ==
    /\ pc = "tabulated"
    /\ EXPERIMENT_COUNTER = 2
    /\ score["acc"].num < score["acc"].den
    /\ Len(prediction) = Len(x_test)

(***************************************************************************)
(* C16.  A failure in the middle of an epoch aborts the whole training     *)
(* run, without resumption or retry: after it no further batch or epoch of *)
(* that run executes, no Training History is returned to the caller, and   *)
(* the run never reaches TRAINED or EVALUATED.  (Running the training cell *)
(* again is a new run: it starts at epoch 0 with an empty History.)        *)
(***************************************************************************)
C16_FailureAbortsRun ==
    \* the failing step returns nothing, and a run leaves fit as TRAINED only
    \* after its last epoch
    /\ [][pc = "fit" =>
            /\ pc' = "fit_failed" =>
                  /\ history' = history
                  /\ fitState'.history = fitState.history
                  /\ fitState'.epoch = fitState.epoch
                  /\ EXPERIMENT_COUNTER' = EXPERIMENT_COUNTER
            /\ fitState.epoch < cfg.epochs => pc' \in {"fit", "fit_failed"}]_vars
    \* after the failure nothing of that run executes
    /\ [][(pc = "fit_failed" /\ invocations' = invocations) =>
            /\ pc' = "fit_failed"
            /\ steps' = steps /\ fitState' = fitState /\ model' = model
            /\ history' = history /\ logs' = logs]_vars
    \* a new run does not resume the failed one
    /\ [][(pc = "fit_failed" /\ invocations' # invocations /\ pc' = "fit") =>
            fitState' = NoFit /\ steps' = steps /\ history' = history]_vars
    \* a first run that failed has left no History
    /\ []((pc = "fit_failed" /\ invocations = 1) => history = None)

\* a first run that failed in the middle of its second epoch
C16_Witness ==
    /\ pc = "fit_failed"
    /\ invocations = 1
    /\ fitState.epoch >= 1 /\ fitState.epoch < cfg.epochs
    /\ fitState.batch >= 1
    /\ Len(fitState.history) = fitState.epoch

(***************************************************************************)
(* C17.  In every model that is built each layer's input size is the       *)
(* previous layer's output size and the first layer's input size is the    *)
(* feature dimensionality of the loaded examples (784 for the flattened    *)
(* images, (28, 28, 1) for the convolutional variant); a stack that        *)
(* violates this fails at construction time.                               *)
(* As stated it does not hold: the examples play no part in building a     *)
(* model, so a stack whose first layer declares another input shape than   *)
(* the loaded examples have is built without an error.                     *)
(***************************************************************************)
ChainOfShapes ==
    /\ Len(model.layers) >= 1
    /\ model.layers[1].in = model.input_shape
    /\ \A k \in 2..Len(model.layers) : model.layers[k].in = model.layers[k - 1].out
    /\ \A k \in 1..Len(model.layers) : model.layers[k].out # NoShape

EventsOf(run) == SelectSeq(logs, LAMBDA e : e.run = run)

C18_ConcurrentRunsCollide ==
    (pc = "fit" /\ other.pc = "fit" /\ EXPERIMENT_COUNTER = other.EXPERIMENT_COUNTER) =>
        LET mine == EventsOf(invocations)
            theirs == EventsOf(OtherRun(other.invocations))
        IN  /\ tensorboard = EXPERIMENT_COUNTER
            /\ other.tensorboard = EXPERIMENT_COUNTER
            /\ Len(mine) >= 1 /\ Len(theirs) >= 1
            /\ \A k \in 1..Len(mine) : mine[k].dir = EXPERIMENT_COUNTER
            /\ \A k \in 1..Len(theirs) : theirs[k].dir = EXPERIMENT_COUNTER

\* two runs in fit at the same time, in the same directory, one epoch done each
C18_Witness ==
    /\ pc = "fit" /\ other.pc = "fit"
    /\ tensorboard = other.tensorboard
    /\ fitState.epoch >= 1 /\ other.epoch >= 1
    /\ \E i, j \in 1..Len(logs) :
          /\ logs[i].run = invocations /\ logs[j].run = OtherRun(other.invocations)
          /\ logs[i].dir = logs[j].dir
          /\ logs[i].tag = logs[j].tag /\ logs[i].step = logs[j].step

(***************************************************************************)
(* C19.  Training cannot start before both the Loader and the Builder have *)
(* completed, the Evaluator cannot start before training has completed,    *)
(* and Loader and Builder are independent: run in either order they lead   *)
(* to the same pipeline state (the Loader's arrays and the Builder's       *)
(* model, neither touched by the other, and nothing else).                 *)
(***************************************************************************)
\* the arrays the loading cell leaves for the rows that were selected
LoaderOutput ==
    IF notebook = "tensorboard" THEN LoadSlice(TRAIN_EXAMPLES, TEST_EXAMPLES)
    ELSE LoadMask([ok |-> TRUE, idx |-> [k \in 1..Len(x_train) |-> x_train[k][2]]],
                  [ok |-> TRUE, idx |-> [k \in 1..Len(x_test) |-> x_test[k][2]]])

ArraysAreLoaderOutput ==
    /\ x_train = LoaderOutput.x_train /\ y_train = LoaderOutput.y_train
    /\ x_test = LoaderOutput.x_test /\ y_test = LoaderOutput.y_test
    /\ notebook # "tensorboard" =>
          Len(x_train) = TRAIN_EXAMPLES /\ Len(x_test) = TEST_EXAMPLES

\* the models the model cell gives, whatever the arrays
BuilderOutputs ==
    { Sequential(stack.input_shape, OutputShapes(stack.layers, stack.input_shape), w) :
        stack \in Stacks, w \in 0..(cfg.num_classes - 1) }

ScalarsOf(run, tag, step) ==
    { i \in 1..Len(logs) : logs[i].run = run /\ logs[i].tag = tag /\ logs[i].step = step }

C20_EventStreamPerRun ==
    /\ [][IsPrefix(logs, logs')]_vars
    \* the directory is made, under the counter's value, when the run starts
    /\ [][(invocations' # invocations /\ pc' = "fit") =>
              IF notebook = "tensorboard"
              THEN logs' = Append(logs, [dir |-> EXPERIMENT_COUNTER, run |-> invocations',
                                         tag |-> "open", step |-> -1])
              ELSE logs' = logs]_vars
    /\ [](notebook # "tensorboard" => logs = << >>)
    \* the stream of the current run
    /\ []((notebook = "tensorboard" /\ (pc = "fit" \/ AfterTraining)) =>
              LET ev == EventsOf(invocations)
                  H == fitState.history
              IN  /\ Len(ev) >= 1 /\ ev[1].tag = "open"
                  /\ \A k \in 1..Len(ev) : ev[k].dir = tensorboard
                  /\ \A k \in 1..Len(H) : \A t \in DOMAIN H[k].logs :
                        Cardinality(ScalarsOf(invocations, t, H[k].epoch)) = 1
                  /\ Len(ev) = 1 + SumSeq([k \in 1..Len(H) |-> Cardinality(DOMAIN H[k].logs)])
                  /\ \A j, k \in 1..Len(ev) : j <= k => ev[j].step <= ev[k].step
                  /\ AfterTraining =>
                        /\ Len(H) = cfg.epochs
                        /\ \A k \in 1..Len(H) :
                              DOMAIN H[k].logs = { TagOrder[j] : j \in 1..Len(TagOrder) })

\* a completed run of part_000, after a run that failed with an epoch logged
C20_Witness ==
    /\ notebook = "tensorboard" /\ pc = "trained" /\ invocations = 2
    /\ Len(EventsOf(1)) > 1
    /\ Len(EventsOf(1)) < Len(EventsOf(2))
    /\ Len(EventsOf(2)) = 1 + cfg.epochs * Len(TagOrder)

(***************************************************************************)
(* C21.  Every record of a Training History, of the fit in progress and of *)
(* the History a fit returned, holds the training loss and each metric     *)
(* compile was given, and, every fit of the notebooks being called with    *)
(* validation_data=(x_test, y_test), the validation loss and the           *)
(* validation value of each of these metrics, and no other name.           *)
(***************************************************************************)
TrainingNames == {"loss"} \cup model.metrics

ValidationNames == { ValTag(t) : t \in TrainingNames }

RecordsHold(h, names) == \A k \in 1..Len(h) : DOMAIN h[k].logs = names

C21_HistoryRecordNames ==
    /\ RecordsHold(fitState.history, TrainingNames \cup ValidationNames)
    /\ AfterTraining => RecordsHold(history, TrainingNames \cup ValidationNames)

\* a returned History of the notebook compiled with two metrics: six names
C21_Witness ==
    /\ pc = "trained"
    /\ notebook = "tensorboard"
    /\ Len(history) = cfg.epochs
    /\ DOMAIN history[cfg.epochs].logs =
           {"loss", "acc", "mean_absolute_error",
            "val_loss", "val_acc", "val_mean_absolute_error"}

(***************************************************************************)
(* C22.  Numerical divergence is not specially detected.  Once a record of *)
(* the fit in progress has a loss that is not finite, the fit goes on as   *)
(* any other: while epochs are left the next epoch can run, after the last *)
(* one the cell can return; every further epoch adds one record; and when  *)
(* the cell returns, its History has `epochs` records, the non-finite one  *)
(* among them, and part_000's counter is one more than before.             *)
(***************************************************************************)
NonFinite(v) == v.den = 0

Diverged(h) == \E k \in 1..Len(h) : NonFinite(h[k].logs["loss"])

C22_DivergenceNotDetected ==
    /\ [](pc = "fit" /\ Diverged(fitState.history)
            => IF fitState.epoch < cfg.epochs THEN ENABLED TrainEpoch
                                              ELSE ENABLED TrainingCellReturn)
    /\ [][pc = "fit" /\ Diverged(fitState.history)
            => /\ pc' = "fit" => /\ fitState'.epoch = fitState.epoch + 1
                                 /\ Len(fitState'.history) = Len(fitState.history) + 1
                                 /\ NonFinite(fitState'.history[fitState'.epoch].logs["loss"])
               /\ pc' = "trained" => /\ fitState.epoch = cfg.epochs
                                     /\ Len(history') = cfg.epochs
                                     /\ Diverged(history')
                                     /\ notebook = "tensorboard"
                                           => EXPERIMENT_COUNTER' = EXPERIMENT_COUNTER + 1
       ]_vars

\* part_000's cell has returned from a fit whose loss was finite in the first
\* epoch and not finite in the last: the History is whole, the counter moved on
C22_Witness ==
    /\ pc = "trained"
    /\ notebook = "tensorboard"
    /\ Len(history) = cfg.epochs
    /\ ~NonFinite(history[1].logs["loss"])
    /\ NonFinite(history[cfg.epochs].logs["loss"])
    /\ NonFinite(history[cfg.epochs].logs["val_loss"])
    /\ EXPERIMENT_COUNTER = 2

(***************************************************************************)
(* C23.  As claimed, of every notebook: before the loading cell runs, with *)
(* any requested counts within the corpus, every subset of that size of    *)
(* the training split and every subset of that size of the test split is a *)
(* result the cell can give, so two runs of it may differ.                 *)
(***************************************************************************)
SubsetsOfSize(population, n) == { S \in SUBSET (1..population) : Cardinality(S) = n }

Examples(split, S) == { Example(split, i) : i \in S }

CanLoadTrain(trainN, testN, S) ==
    ENABLED (LoadData(trainN, testN) /\ pc' = "loaded"
                /\ Sources(x_train') = Examples("train", S))

CanLoadTest(trainN, testN, T) ==
    ENABLED (LoadData(trainN, testN) /\ pc' = "loaded"
                /\ Sources(x_test') = Examples("test", T))

EverySubsetPossible ==
    \A trainN \in 1..cfg.train, testN \in 1..cfg.test :
        /\ \A S \in SubsetsOfSize(cfg.train, trainN) : CanLoadTrain(trainN, testN, S)
        /\ \A T \in SubsetsOfSize(cfg.test, testN) : CanLoadTest(trainN, testN, T)

OnlyTheSlice(trainN, testN) ==
    /\ ENABLED LoadData(trainN, testN)
    /\ ~ENABLED (LoadData(trainN, testN)
                    /\ << x_train', y_train', x_test', y_test' >> #
                           << LoadSlice(trainN, testN).x_train, LoadSlice(trainN, testN).y_train,
                              LoadSlice(trainN, testN).x_test, LoadSlice(trainN, testN).y_test >>)

Aligned(x, y) ==
    \A i \in (1..Len(x)) \cap (1..Len(y)) :
        /\ Src(y[i]) = Src(x[i])
        /\ Val(y[i]) = one_hot(Label(Src(x[i])), cfg.num_classes)

C24_FeaturesLabelsAligned ==
    Loaded => Aligned(x_train, y_train) /\ Aligned(x_test, y_test)

(***************************************************************************)
(* C25.  Over every sequence of executions of part_000's cells, the        *)
(* counter initialisation cell and the training cell among them, the run   *)
(* counter never decreases.                                                *)
(***************************************************************************)
C25_CounterNeverDecreases ==
    [][notebook = "tensorboard" => EXPERIMENT_COUNTER' >= EXPERIMENT_COUNTER]_vars

(***************************************************************************)
(* C26.  From the counter's initial value 1, in a sequence of training     *)
(* invocations none of which fails, the k-th invocation writes to          *)
(* logs/experiment-k and nowhere else; and when k invocations have         *)
(* completed and none is in progress, the directories under logs are       *)
(* exactly experiment-1 .. experiment-k, each holding the whole event      *)
(* stream of its run, and the counter is k + 1.                            *)
(***************************************************************************)
Dirs == { logs[i].dir : i \in 1..Len(logs) }

WritesOnlyTo(run, dir) ==
    /\ \E i \in 1..Len(logs) : logs[i].run = run
    /\ \A i \in 1..Len(logs) : logs[i].run = run => logs[i].dir = dir

WholeStream(run) ==
    \A epoch \in 0..(cfg.epochs - 1) :
        \E i \in 1..Len(logs) : /\ logs[i].run = run /\ logs[i].step = epoch
                                /\ logs[i].tag = "val_loss"

C26_KthRunWritesExperimentK ==
    EXPERIMENT_COUNTER # 0 /\ pc \in {"built", "fit", "trained"} =>
        /\ \A k \in 1..invocations : WritesOnlyTo(k, k)
        /\ pc \in {"built", "trained"} =>
              /\ Dirs = 1..invocations
              /\ \A k \in 1..invocations : WholeStream(k)
              /\ EXPERIMENT_COUNTER = invocations + 1
        /\ pc = "fit" =>
              /\ Dirs = 1..invocations
              /\ \A k \in 1..(invocations - 1) : WholeStream(k)
              /\ EXPERIMENT_COUNTER = invocations

\* as many completed runs as the pass makes (more than two), none in progress
C26_Witness ==
    /\ pc = "trained"
    /\ invocations = cfg.runs
    /\ invocations > 2
    /\ EXPERIMENT_COUNTER = cfg.runs + 1
    /\ Dirs = 1..cfg.runs
    /\ WholeStream(cfg.runs)

(***************************************************************************)
(* C27.  The heatmap of the confusion matrix shows row-normalised values:  *)
(* when every class of the matrix has at least one example, the entry      *)
(* shown at (i, j) is the count of true class i predicted as j divided by  *)
(* the number of examples of true class i, and every row sums to 1.        *)
(***************************************************************************)
\* the sum of the quotients of a row is 1: they have one divisor, and their
\* dividends sum to it
RowSumsToOne(row) ==
    /\ \A c \in 1..Len(row) : row[c].den = row[1].den /\ row[c].den > 0
    /\ SumSeq([c \in 1..Len(row) |-> row[c].num]) = row[1].den

C27_HeatmapRowNormalised ==
    pc = "tabulated" /\ (\A r \in 1..Len(matrix) : sum_axis1(matrix)[r] > 0) =>
        \A r \in 1..Len(matrix) :
            /\ \A c \in 1..Len(matrix) :
                  heatmap(matrix)[r][c].num * sum_axis1(matrix)[r]
                      = matrix[r][c] * heatmap(matrix)[r][c].den
            /\ RowSumsToOne(heatmap(matrix)[r])

(***************************************************************************)
(* C28.  Every classifier that is trained on the one-hot labels (a fit has *)
(* accepted it and run, or is running) has a last layer as wide as         *)
(* num_classes, which is the width of every one-hot label row of both      *)
(* splits; and every class label predict_classes gives lies in 0..K-1.     *)
(***************************************************************************)
Trained == pc = "fit" \/ AfterTraining

LabelWidths == { Len(Val(y_train[i])) : i \in 1..Len(y_train) }
                   \cup { Len(Val(y_test[i])) : i \in 1..Len(y_test) }

C28_OutputWidthIsNumClasses ==
    /\ Trained => /\ model.units = cfg.num_classes
                  /\ model.layers[Len(model.layers)].layer = Dense(cfg.num_classes)
                  /\ LabelWidths = {cfg.num_classes}
    /\ pc \in {"predicted", "tabulated"} =>
          \A i \in 1..Len(prediction) : prediction[i] \in 0..(cfg.num_classes - 1)

\* the convolutional classifier of part_002, trained, has predicted the classes
\* of all the test rows, the last class among them
C28_Witness ==
    /\ pc = "predicted"
    /\ notebook = "cnn"
    /\ Len(model.layers) = Len(CnnStack.layers)
    /\ model.units = cfg.num_classes
    /\ Len(prediction) = cfg.test
    /\ cfg.num_classes - 1 \in Range(prediction)

====
